---- MODULE Spec2Model ----
\* Model of the tar exporter, src/exporter/tar/export.go:
\* localExporter.Resolve and localExporterInstance.Export, with the external
\* collaborators (CreateFS, SubDirFS, session Get, CopyFileWriter, WriteTar,
\* progress.OneOff) as nondeterministic outcomes at their call sites.
EXTENDS Integers, Sequences, FiniteSets, TLC

\* ------------------------------------------------------------------ bounds
MaxPlatforms == 2      \* longest Platforms descriptor drawn as input
MaxCalls == 2          \* Export calls made on the one resolved instance

\* --------------------------------------------------------- program constants
AcquireTimeout == 5    \* context.WithTimeout(ctx, 5*time.Second)

\* ------------------------------------------------------------------ strings
\* A platform id is a Go string, modelled as a sequence of characters so that
\* strings.Replace acts on it. "" is the empty sequence.
ID_lav == <<"l", "/", "a", "/", "v">>
ID_l_av == <<"l", "_", "a", "/", "v">>
ID_w == <<"w">>
PlatformIDs == {ID_lav, ID_l_av, ID_w}
EmptyKey == <<>>

\* Mutant of Replace: only the first "/" is replaced (n = 1 instead of -1).
ReplaceFirst(k) ==
  [j \in DOMAIN k |->
     IF k[j] = "/" /\ (\A h \in 1..(j - 1) : k[h] # "/") THEN "_" ELSE k[j]]

\* Mutant of Replace: the key is used as the name unchanged.
ReplaceNone(k) == k

\* strings.Replace(k, "/", "_", -1)
Replace(k) == [j \in DOMAIN k |-> IF k[j] = "/" THEN "_" ELSE k[j]]

SeqsUpTo(S, n) == UNION {[1..k -> S] : k \in 0..n}

\* ------------------------------------------------------------------- errors
Err(m) == [msg |-> m, id |-> EmptyKey]
ErrNil == Err("nil")
ErrInvalidEpoch == Err("invalid SOURCE_DATE_EPOCH from frontend")
ErrMissingPlatforms == Err("unable to export multiple refs, missing platforms mapping")
ErrParsePlatforms == Err("failed to parse platforms passed to exporter")
ErrMultipleWithoutMap == Err("unable to export multiple platforms without map")
ErrMissingRef(k) == [msg |-> "failed to find ref for ID", id |-> k]
ErrCreateFS == Err("CreateFS failed")
ErrSubDirFS == Err("SubDirFS failed")
ErrSession == Err("session Get failed")
ErrDeadline == Err("context deadline exceeded")
ErrCopyFileWriter == Err("CopyFileWriter failed")
ErrWriteTar == Err("WriteTar failed")
ErrClose == Err("Close failed")
ErrPanicNilFS == Err("panic: nil FS")
ErrCleanup == Err("cleanup failed")

\* --------------------------------------------------------------- option map
\* Resolve's opt map[string]string, one field per recognised key; a field is
\* the empty set when the key is absent and {token} when it is present.
EpochTokens == {"1", "bad"}
BoolTokens == {"true", "false", "bad"}
PrefixTokens == {"att-"}
PreferTokens == {"false", "bad"}
Maybe(S) == {{}} \cup {{x} : x \in S}
OptMaps ==
  [epoch : Maybe(EpochTokens), multiplatform : Maybe(BoolTokens),
   prefer : Maybe(PreferTokens), prefix : Maybe(PrefixTokens)]

\* parseTime: a decimal token is seconds since the Unix epoch
ParseTimeOK(v) == v \in {"1", "2"}
ParseTime(v) == CASE v = "1" -> 1 [] v = "2" -> 2 [] OTHER -> 0

\* strconv.ParseBool
ParseBoolOK(v) == v \in {"1", "t", "true", "0", "f", "false"}
ParseBool(v) == v \in {"1", "t", "true"}

\* time.Time.UnixNano of a time given in seconds
UnixNano(t) == t * 1000000000

\* ------------------------------------------------------------------- inputs
\* inp.Metadata[ExporterPlatformsKey]: absent, zero bytes, bytes that do not
\* unmarshal, or the JSON of a Platforms value listing ids in order.
PlatformsAbsent == [kind |-> "absent", ids |-> <<>>]
PlatformsMeta ==
  {PlatformsAbsent, [kind |-> "empty", ids |-> <<>>], [kind |-> "bad", ids |-> <<>>]}
  \cup {[kind |-> "json", ids |-> s] : s \in SeqsUpTo(PlatformIDs, MaxPlatforms)}
\* inp.Metadata[ExporterEpochKey]
EpochMeta == {"absent", "bad", "2"}
\* exporter.Source: Refs is the set of keys of the ref mapping (empty for the
\* single-ref form, which carries inp.Ref).
Sources ==
  [Refs : SUBSET PlatformIDs, platforms : PlatformsMeta, epoch : EpochMeta]
NoSource == [Refs |-> {}, platforms |-> PlatformsAbsent, epoch |-> "absent"]

\* -------------------------------------------------------------- filesystems
NilFS == [kind |-> "nil", key |-> EmptyKey, dirs |-> <<>>]
OutputFS(k) == [kind |-> "fs", key |-> k, dirs |-> <<>>]
\* Mutant of UnionFS: the first directory's handle stands for the union.
UnionFS_first(ds) == IF ds = <<>> THEN NilFS ELSE ds[1].FS
UnionFS(ds) == [kind |-> "subdir", key |-> EmptyKey, dirs |-> ds]

VARIABLES
  pc,            \* position of the instance / of the running Export call
  opts,          \* localExporterInstance.opts (local.CreateFSOpts)
  preferNonDist, \* localExporterInstance.preferNonDist
  resolved,      \* the opts value Resolve returned (history)
  calls,         \* Export calls started on the instance (history)
  inp,           \* the running call's *exporter.Source
  now,           \* Export's local now, 0 until line 111 has run
  defers,        \* Export's local: var defers []func() error
  isMap,         \* Export's local isMap
  p,             \* Export's local p.Platforms, as the ids in order
  idx,           \* position of the loop over p.Platforms (1-based)
  i,             \* cleanups the deferred loop has invoked so far
  dirs,          \* Export's local dirs []fsutil.Dir
  fs,            \* Export's local fs fsutil.FS
  timeoutCtx,    \* the inner context: none, live, expired, cancelled
  elapsed,       \* seconds since timeoutCtx was created
  w,             \* the write sink: none, open, closed
  report,        \* the progress report: none, begun, final
  err,           \* the error Export returns
  createLog,     \* CreateFS calls of this Export call, in order (history)
  cleanupLog,    \* cleanup functions invoked by this call, in order (history)
  cleanupErrs,   \* what each invoked cleanup returned, in order (history)
  sinkLog        \* sink and report events of this call, in order (history)

vars == <<pc, opts, preferNonDist, resolved, calls, inp, now, now, defers, isMap,
          p, idx, i, dirs, fs, timeoutCtx, elapsed, w, report, err, createLog,
          cleanupLog, cleanupErrs, sinkLog>>

instanceVars == <<opts, preferNonDist, resolved>>
localVars == <<defers, isMap, p, idx, dirs, fs>>
resolverVars == <<isMap, p, idx, dirs, fs>>
deliveryVars == <<timeoutCtx, elapsed, w, report, sinkLog>>
logVars == <<createLog, cleanupLog, cleanupErrs>>

ZeroOpts == [Epoch |-> {}, MultiPlatform |-> {}, AttestationPrefix |-> ""]

Init ==
  /\ pc = "new"
  /\ opts = ZeroOpts
  /\ preferNonDist = FALSE
  /\ resolved = ZeroOpts
  /\ calls = 0
  /\ inp = NoSource
  /\ now = 0
  /\ defers = <<>>
  /\ isMap = FALSE
  /\ p = <<>>
  /\ idx = 0
  /\ i = 0
  /\ dirs = <<>>
  /\ fs = NilFS
  /\ timeoutCtx = "none"
  /\ elapsed = 0
  /\ w = "none"
  /\ report = "none"
  /\ err = ErrNil
  /\ createLog = <<>>
  /\ cleanupLog = <<>>
  /\ cleanupErrs = <<>>
  /\ sinkLog = <<>>

\* ------------------------------------------------------------------ Resolve
\* epoch.ParseExporterAttrs / multiplatform.ParseExporterAttrs: the value of
\* the consumed key, nil (the empty set) when the key is absent.
EpochAttrOK(o) == \A v \in o.epoch : ParseTimeOK(v)
EpochAttr(o) == {ParseTime(v) : v \in o.epoch}
MultiPlatformAttrOK(o) == \A v \in o.multiplatform : ParseBoolOK(v)
MultiPlatformAttr(o) == {ParseBool(v) : v \in o.multiplatform}
PreferOK(o) == \A v \in o.prefer : ParseBoolOK(v)
AttestationPrefixOf(o) == IF o.prefix = {} THEN "" ELSE CHOOSE v \in o.prefix : TRUE

\* The instance Resolve builds from an option map that parses.
ResolvedOpts(o) ==
  [Epoch |-> EpochAttr(o), MultiPlatform |-> MultiPlatformAttr(o),
   AttestationPrefix |-> AttestationPrefixOf(o)]

Resolve ==
  /\ pc = "new"
  /\ \E o \in OptMaps :
       IF EpochAttrOK(o) /\ MultiPlatformAttrOK(o) /\ PreferOK(o)
       THEN /\ opts' = ResolvedOpts(o)
            /\ resolved' = ResolvedOpts(o)
            /\ preferNonDist' = (\E v \in o.prefer : ParseBool(v))
            /\ pc' = "ready"
       ELSE /\ pc' = "resolveFailed"
            /\ UNCHANGED instanceVars
  /\ UNCHANGED <<calls, inp, now, err, i>>
  /\ UNCHANGED <<localVars, deliveryVars, logVars>>

\* ------------------------------------------------------------------- Export
\* A return statement of Export: the result is fixed and the deferred calls
\* run, last registered first: cancel (when line 195 was reached), then the
\* cleanup loop registered at line 97.
Return(e) ==
  /\ err' = e
  /\ i' = 0
  /\ pc' = IF timeoutCtx = "none" THEN "cleanup" ELSE "cancel"

\* The locals and the per-call history of an Export call that is not running.
NoCall ==
  /\ inp' = NoSource
  /\ now' = 0
  /\ defers' = <<>>
  /\ isMap' = FALSE
  /\ p' = <<>>
  /\ idx' = 0
  /\ i' = 0
  /\ dirs' = <<>>
  /\ fs' = NilFS
  /\ timeoutCtx' = "none"
  /\ elapsed' = 0
  /\ w' = "none"
  /\ report' = "none"
  /\ err' = ErrNil
  /\ createLog' = <<>>
  /\ cleanupLog' = <<>>
  /\ cleanupErrs' = <<>>
  /\ sinkLog' = <<>>

\* Export is entered with a source; its locals are fresh.
Call ==
  /\ pc = "ready"
  /\ calls < MaxCalls
  /\ \E src \in Sources : inp' = src
  /\ calls' = calls + 1
  /\ pc' = "epoch"
  /\ UNCHANGED <<now, defers, isMap, p, idx, i, dirs, fs, err>>
  /\ UNCHANGED <<instanceVars, deliveryVars, logVars>>

\* The caller has taken Export's result: the call's frame is gone and the
\* instance can be used for the next call.
Returned ==
  /\ pc = "done"
  /\ pc' = "ready"
  /\ NoCall
  /\ UNCHANGED calls
  /\ UNCHANGED instanceVars

\* epoch.ParseSource(inp): (tm, ok, err)
ParseSource(src) ==
  IF src.epoch = "absent" THEN [tm |-> {}, ok |-> FALSE, err |-> ErrNil]
  ELSE IF ParseTimeOK(src.epoch)
       THEN [tm |-> {ParseTime(src.epoch)}, ok |-> TRUE, err |-> ErrNil]
       ELSE [tm |-> {}, ok |-> FALSE, err |-> ErrInvalidEpoch]

\* Lines 103-109: the value e.opts.Epoch holds after the block.
EpochAfterSource(o, src) ==
  IF o.Epoch = {} /\ ParseSource(src).ok THEN ParseSource(src).tm ELSE o.Epoch

\* The wall clock's readings, in seconds, and time.Time.Truncate(time.Second).
NowTimes == {1, 2}
Truncate(t) == t

\* Lines 103-111: the epoch block, then now := time.Now().Truncate(time.Second)
ParseEpoch ==
  /\ pc = "epoch"
  /\ IF opts.Epoch = {} /\ ParseSource(inp).err # ErrNil
     THEN /\ Return(ParseSource(inp).err)
          /\ UNCHANGED <<opts, now>>
     ELSE /\ opts' = [opts EXCEPT !.Epoch = EpochAfterSource(opts, inp)]
          /\ \E t \in NowTimes : now' = Truncate(t)
          /\ pc' = "mode"
          /\ UNCHANGED <<err, i>>
  /\ UNCHANGED <<preferNonDist, resolved, calls, inp>>
  /\ UNCHANGED <<localVars, deliveryVars, logVars>>

\* json.Unmarshal(platformsBytes, &p), run only when the key is present with
\* a non-empty value; p stays the zero value otherwise.
\* Mutant of HasPlatformsKey: the lookup's ok result is not consulted.
HasPlatformsKey_any(src) == TRUE

\* Lines 138-139: platformsBytes, ok := inp.Metadata[ExporterPlatformsKey]
HasPlatformsKey(src) == src.platforms.kind # "absent"
UnmarshalFails(src) == src.platforms.kind = "bad"
ParsedPlatforms(src) == IF src.platforms.kind = "json" THEN src.platforms.ids ELSE <<>>

\* Mutant of ResolveIsMap: the platform count is not consulted.
ResolveIsMap_noCount(src, o) ==
  IF o.MultiPlatform # {} THEN (CHOOSE b \in o.MultiPlatform : TRUE) ELSE src.Refs # {}

\* Mutant of ResolveIsMap: the platform count is applied after the override.
ResolveIsMap_countLast(src, o) ==
  LET byRefs == src.Refs # {}
      byOverride == IF o.MultiPlatform # {} THEN (CHOOSE b \in o.MultiPlatform : TRUE)
                    ELSE byRefs
  IN  IF Len(ParsedPlatforms(src)) > 1 THEN TRUE ELSE byOverride

\* Lines 136-155: isMap after the three signals have been applied in order.
ResolveIsMap(src, o) ==
  LET byRefs == src.Refs # {}
      byCount == IF Len(ParsedPlatforms(src)) > 1 THEN TRUE ELSE byRefs
  IN  IF o.MultiPlatform # {} THEN (CHOOSE b \in o.MultiPlatform : TRUE) ELSE byCount

\* Mutant of MultipleWithoutMap: the check is gone.
MultipleWithoutMap_off(m, ids) == FALSE

\* Lines 156-158
MultipleWithoutMap(m, ids) == ~m /\ Len(ids) > 1

ResolveMode ==
  /\ pc = "mode"
  /\ IF inp.Refs # {} /\ ~HasPlatformsKey(inp)
     THEN /\ Return(ErrMissingPlatforms)
          /\ UNCHANGED <<isMap, p, idx>>
     ELSE IF UnmarshalFails(inp)
     THEN /\ Return(ErrParsePlatforms)
          /\ UNCHANGED <<isMap, p, idx>>
     ELSE /\ p' = ParsedPlatforms(inp)
          /\ isMap' = ResolveIsMap(inp, opts)
          /\ IF MultipleWithoutMap(isMap', p')
             THEN /\ Return(ErrMultipleWithoutMap)
                  /\ UNCHANGED idx
             ELSE /\ pc' = "dirs"
                  /\ idx' = 1
                  /\ UNCHANGED <<err, i>>
  /\ UNCHANGED <<calls, inp, now, defers, dirs, fs>>
  /\ UNCHANGED <<instanceVars, deliveryVars, logVars>>

\* ------------------------------------------------------------------- getDir
\* local.CreateFS returns an error, or a filesystem with or without a cleanup.
CreateFSOutcomes == {"err", "fs", "fs+cleanup"}

\* One CreateFS call as getDir issues it (line 114): the key, the outcome and
\* the e.opts and now values passed.
CreateFSCall(k, out) == [k |-> k, out |-> out, opts |-> opts, now |-> now]

\* Lines 118-120: defers after a CreateFS call that succeeded; a cleanup is
\* identified by the ordinal n of the CreateFS call that returned it.
CollectCleanup(d, out, n) == IF out = "fs+cleanup" THEN Append(d, n) ELSE d

\* Mutant of StatModTime: with no epoch the entry takes Export's current time.
StatModTime_now(o) ==
  IF o.Epoch # {} THEN UnixNano(CHOOSE t \in o.Epoch : TRUE) ELSE UnixNano(now)

\* Lines 126-128
StatModTime(o) == IF o.Epoch # {} THEN UnixNano(CHOOSE t \in o.Epoch : TRUE) ELSE 0

\* Lines 122-133: the *fsutil.Dir getDir returns for key k.
Dir(k, o) == [FS |-> OutputFS(k), Path |-> Replace(k), ModTime |-> StatModTime(o)]

\* Mutant of HasRef: the lookup's ok result is not consulted.
HasRef_any(src, k) == TRUE

\* Lines 165-166: r, ok := inp.Refs[p.ID]
HasRef(src, k) == k \in src.Refs

\* Mutant of AppendDir: the new directory is put in front of the list.
AppendDir_front(ds, d) == <<d>> \o ds

\* Line 177: dirs = append(dirs, *d)
AppendDir(ds, d) == Append(ds, d)

\* Lines 164-178: one iteration of the loop over p.Platforms.
MaterializeNext ==
  /\ pc = "dirs"
  /\ inp.Refs # {}
  /\ idx <= Len(p)
  /\ LET k == p[idx] IN
       IF ~HasRef(inp, k)
       THEN /\ Return(ErrMissingRef(k))
            /\ UNCHANGED <<defers, idx, dirs, fs, createLog>>
       ELSE \E out \in CreateFSOutcomes :
              /\ createLog' = Append(createLog, CreateFSCall(k, out))
              /\ IF out = "err"
                 THEN /\ Return(ErrCreateFS)
                      /\ UNCHANGED <<defers, idx, dirs, fs>>
                 ELSE /\ defers' = CollectCleanup(defers, out, Len(createLog'))
                      /\ UNCHANGED <<err, i>>
                      /\ IF ~isMap
                         THEN /\ fs' = Dir(k, opts).FS
                              /\ pc' = "acquire"
                              /\ UNCHANGED <<idx, dirs>>
                         ELSE /\ dirs' = AppendDir(dirs, Dir(k, opts))
                              /\ idx' = idx + 1
                              /\ UNCHANGED <<pc, fs>>
  /\ UNCHANGED <<calls, inp, now, isMap, p, cleanupLog, cleanupErrs>>
  /\ UNCHANGED <<instanceVars, deliveryVars>>

\* fsutil.SubDirFS(dirs): fails when two directories share an entry name.
SubDirFSFails(ds) == \E a, b \in DOMAIN ds : a # b /\ ds[a].Path = ds[b].Path

\* Lines 179-185, reached when the loop over p.Platforms ran to its end.
Compose ==
  /\ pc = "dirs"
  /\ inp.Refs # {}
  /\ idx > Len(p)
  /\ IF isMap
     THEN IF SubDirFSFails(dirs)
          THEN /\ Return(ErrSubDirFS)
               /\ UNCHANGED fs
          ELSE /\ fs' = UnionFS(dirs)
               /\ pc' = "acquire"
               /\ UNCHANGED <<err, i>>
     ELSE /\ pc' = "acquire"
          /\ UNCHANGED <<fs, err, i>>
  /\ UNCHANGED <<calls, inp, now, defers, isMap, p, idx, dirs>>
  /\ UNCHANGED <<instanceVars, deliveryVars, logVars>>

\* Mutant of SingleFS: the single directory is wrapped when isMap holds.
SingleFS_wrap(d, m) == IF m THEN UnionFS(<<d>>) ELSE d.FS

\* Line 191: fs = d.FS, whatever isMap holds.
SingleFS(d, m) == d.FS

\* Lines 186-192: the single-ref form.
MaterializeSingle ==
  /\ pc = "dirs"
  /\ inp.Refs = {}
  /\ \E out \in CreateFSOutcomes :
       /\ createLog' = Append(createLog, CreateFSCall(EmptyKey, out))
       /\ IF out = "err"
          THEN /\ Return(ErrCreateFS)
               /\ UNCHANGED <<defers, fs>>
          ELSE /\ defers' = CollectCleanup(defers, out, Len(createLog'))
               /\ fs' = SingleFS(Dir(EmptyKey, opts), isMap)
               /\ pc' = "acquire"
               /\ UNCHANGED <<err, i>>
  /\ UNCHANGED <<calls, inp, now, isMap, p, idx, dirs, cleanupLog, cleanupErrs>>
  /\ UNCHANGED <<instanceVars, deliveryVars>>

\* ----------------------------------------------------------------- delivery
Event(ev, e) == [ev |-> ev, e |-> e]

\* Lines 194-195: the inner context is created and its cancel deferred.
WithTimeout ==
  /\ pc = "acquire"
  /\ timeoutCtx' = "live"
  /\ elapsed' = 0
  /\ pc' = "get"
  /\ UNCHANGED <<calls, inp, now, err, i, w, report, sinkLog>>
  /\ UNCHANGED <<instanceVars, localVars, logVars>>

\* A second passes while Export runs; the inner context expires at its bound.
Tick ==
  /\ timeoutCtx = "live"
  /\ elapsed < AcquireTimeout
  /\ elapsed' = elapsed + 1
  /\ timeoutCtx' = IF elapsed' = AcquireTimeout THEN "expired" ELSE "live"
  /\ UNCHANGED <<pc, calls, inp, now, err, i, w, report, sinkLog>>
  /\ UNCHANGED <<instanceVars, localVars, logVars>>

\* Mutant of AcquireCtx: Get is handed the outer context, which has no bound.
AcquireCtx_outer == "live"

\* Line 197: the context handed to SessionManager.Get is the inner one.
AcquireCtx == timeoutCtx

\* Lines 197-200: SessionManager.Get(timeoutCtx, ...) returns a caller, or an
\* error; with its context expired it returns the context's error.
Get ==
  /\ pc = "get"
  /\ IF AcquireCtx = "expired"
     THEN Return(ErrDeadline)
     ELSE \/ /\ pc' = "sink"
             /\ UNCHANGED <<err, i>>
          \/ Return(ErrSession)
  /\ UNCHANGED <<calls, inp, now>>
  /\ UNCHANGED <<instanceVars, localVars, deliveryVars, logVars>>

\* Mutant of DeliveryCtx: the sink and the serialization are handed the inner
\* context.
DeliveryCtx_inner == timeoutCtx

\* Lines 202, 206, 207: CopyFileWriter, OneOff and WriteTar are handed ctx,
\* the context of the Export call, which the inner context's expiry and
\* cancellation do not reach. Its own cancellation shows as the failures of
\* the calls below.
DeliveryCtx == "live"

\* What a call handed context c can do: with the context over it returns the
\* context's error; otherwise it succeeds or fails with its own error e.
CallOutcomes(c, e) == IF c \in {"expired", "cancelled"} THEN {ErrDeadline} ELSE {ErrNil, e}

\* Lines 202-205: filesync.CopyFileWriter(ctx, nil, caller)
CopyFileWriter ==
  /\ pc = "sink"
  /\ \E e \in CallOutcomes(DeliveryCtx, ErrCopyFileWriter) :
       IF e = ErrNil
       THEN /\ w' = "open"
            /\ sinkLog' = Append(sinkLog, Event("open", ErrNil))
            /\ pc' = "report"
            /\ UNCHANGED <<err, i>>
       ELSE /\ Return(e)
            /\ UNCHANGED <<w, sinkLog>>
  /\ UNCHANGED <<calls, inp, now, timeoutCtx, elapsed, report>>
  /\ UNCHANGED <<instanceVars, localVars, logVars>>

\* Line 206: progress.OneOff(ctx, "sending tarball")
OneOff ==
  /\ pc = "report"
  /\ report' = "begun"
  /\ sinkLog' = Append(sinkLog, Event("begin", ErrNil))
  /\ pc' = "tar"
  /\ UNCHANGED <<calls, inp, now, err, i, timeoutCtx, elapsed, w>>
  /\ UNCHANGED <<instanceVars, localVars, logVars>>

\* The function progress.OneOff returns hands its argument back.
ReportResult(e) == e

\* Mutant of OnWriteTarError: the sink is not closed on the failure path.
OnWriteTarError_noClose(werr, cerr) ==
  [events |-> <<Event("final", werr)>>, ret |-> ReportResult(werr)]

\* Lines 208-209: w.Close(); return nil, report(err)
OnWriteTarError(werr, cerr) ==
  [events |-> <<Event("close", cerr), Event("final", werr)>>,
   ret |-> ReportResult(werr)]

\* Line 211: return nil, report(w.Close())
OnWriteTarOK(cerr) ==
  [events |-> <<Event("close", cerr), Event("final", cerr)>>,
   ret |-> ReportResult(cerr)]

\* The state of the sink after the events of a return path.
SinkAfter(evs) == IF \E n \in DOMAIN evs : evs[n].ev = "close" THEN "closed" ELSE "open"

\* Lines 207-210: fsutil.WriteTar(ctx, fs, w). A nil fs is a nil interface
\* whose method WriteTar calls: the goroutine panics and only the deferred
\* calls run.
WriteTar ==
  /\ pc = "tar"
  /\ IF fs = NilFS
     THEN /\ Return(ErrPanicNilFS)
          /\ UNCHANGED <<w, report, sinkLog>>
     ELSE \E werr \in CallOutcomes(DeliveryCtx, ErrWriteTar) :
            IF werr = ErrNil
            THEN /\ sinkLog' = Append(sinkLog, Event("write", ErrNil))
                 /\ pc' = "close"
                 /\ UNCHANGED <<w, report, err, i>>
            ELSE \E cerr \in {ErrNil, ErrClose} :
                   /\ w' = SinkAfter(OnWriteTarError(werr, cerr).events)
                   /\ report' = "final"
                   /\ sinkLog' = sinkLog \o <<Event("write", werr)>>
                                          \o OnWriteTarError(werr, cerr).events
                   /\ Return(OnWriteTarError(werr, cerr).ret)
  /\ UNCHANGED <<calls, inp, now, timeoutCtx, elapsed>>
  /\ UNCHANGED <<instanceVars, localVars, logVars>>

\* Line 211, after WriteTar returned nil.
Close ==
  /\ pc = "close"
  /\ \E cerr \in {ErrNil, ErrClose} :
       /\ w' = SinkAfter(OnWriteTarOK(cerr).events)
       /\ report' = "final"
       /\ sinkLog' = sinkLog \o OnWriteTarOK(cerr).events
       /\ Return(OnWriteTarOK(cerr).ret)
  /\ UNCHANGED <<calls, inp, now, timeoutCtx, elapsed>>
  /\ UNCHANGED <<instanceVars, localVars, logVars>>

\* ----------------------------------------------------------- deferred calls
\* Line 195: defer cancel(). The context is cancelled and its timer stopped.
Cancel ==
  /\ pc = "cancel"
  /\ timeoutCtx' = "cancelled"
  /\ elapsed' = 0
  /\ pc' = "cleanup"
  /\ UNCHANGED <<calls, inp, now, err, i, w, report, sinkLog>>
  /\ UNCHANGED <<instanceVars, localVars, logVars>>

\* Mutant of DeferredCalls: the loop runs from 0 up to len(defers)-1.
DeferredCalls_forward(d) == d

\* Lines 97-101: the cleanups the deferred loop invokes, in the order it
\* invokes them (i runs from len(defers)-1 down to 0).
DeferredCalls(d) == [j \in 1..Len(d) |-> d[Len(d) - j + 1]]

\* What a cleanup function returns.
CleanupResults == {ErrNil, ErrCleanup}

\* Mutant of AfterCleanup: a cleanup's error replaces the result of Export.
AfterCleanup_keep(e, cerr) == IF cerr # ErrNil THEN cerr ELSE e

\* Line 99: defers[i]() is a statement, so its result is dropped and the
\* result of Export stays what the return statement fixed.
AfterCleanup(e, cerr) == e

\* One iteration of the deferred loop.
Cleanup ==
  /\ pc = "cleanup"
  /\ i < Len(DeferredCalls(defers))
  /\ i' = i + 1
  /\ cleanupLog' = Append(cleanupLog, DeferredCalls(defers)[i + 1])
  /\ \E cerr \in CleanupResults :
       /\ cleanupErrs' = Append(cleanupErrs, cerr)
       /\ err' = AfterCleanup(err, cerr)
  /\ UNCHANGED <<pc, calls, inp, now, createLog>>
  /\ UNCHANGED <<instanceVars, localVars, deliveryVars>>

\* The deferred loop is over: Export returns err to its caller, or the panic
\* goes on up the stack.
Finish ==
  /\ pc = "cleanup"
  /\ i >= Len(DeferredCalls(defers))
  /\ pc' = IF err = ErrPanicNilFS THEN "panicked" ELSE "done"
  /\ UNCHANGED <<calls, inp, now, err, i>>
  /\ UNCHANGED <<instanceVars, localVars, deliveryVars, logVars>>

Next ==
  \/ Resolve
  \/ Call
  \/ ParseEpoch
  \/ ResolveMode
  \/ MaterializeNext
  \/ Compose
  \/ MaterializeSingle
  \/ WithTimeout
  \/ Tick
  \/ Get
  \/ CopyFileWriter
  \/ OneOff
  \/ WriteTar
  \/ Close
  \/ Cancel
  \/ Cleanup
  \/ Finish
  \/ Returned

Spec == Init /\ [][Next]_vars

\* =================================================================== claims
Exited == pc \in {"done", "panicked"}
InCall == pc \notin {"new", "resolveFailed", "ready"}
Mapped == inp.Refs # {}
SingleRef == InCall /\ inp.Refs = {}
\* The ids the Platforms descriptor of the input lists, in order.
Listed == inp.platforms.ids
DescriptorParses == inp.platforms.kind = "json"
OverrideFalse == opts.MultiPlatform = {FALSE}
OverrideUnset == opts.MultiPlatform = {}
\* The call fails at line 105: no epoch is configured and the input's epoch
\* metadata does not parse (e.opts.Epoch is then nil for the whole call).
EpochFails == opts.Epoch = {} /\ inp.epoch = "bad"
\* Override false with more than one listed platform: the line 156 failure.
MultiFails == OverrideFalse /\ Len(Listed) > 1
NoCreateFSError == \A n \in DOMAIN createLog : createLog[n].out # "err"
Reverse(s) == [j \in 1..Len(s) |-> s[Len(s) - j + 1]]
Count(ev) == Cardinality({n \in DOMAIN sinkLog : sinkLog[n].ev = ev})
SinkOpened == Count("open") > 0

\* The cleanups CreateFS returned in this call, in order of acquisition.
RECURSIVE CollectedUpTo(_)
CollectedUpTo(n) ==
  IF n = 0 THEN <<>>
  ELSE IF createLog[n].out = "fs+cleanup" THEN Append(CollectedUpTo(n - 1), n)
       ELSE CollectedUpTo(n - 1)
CollectedCleanups == CollectedUpTo(Len(createLog))

\* C1: when Export has returned (or unwound), the cleanups invoked are exactly
\* the cleanups CreateFS returned, each once, in reverse order of acquisition;
\* at no time has a cleanup been invoked twice.
C1_CleanupsOnceReversed ==
  /\ Exited => cleanupLog = Reverse(CollectedCleanups)
  /\ \A a, b \in DOMAIN cleanupLog : a # b => cleanupLog[a] # cleanupLog[b]

\* C1 witness: a failed Export that had collected two cleanups.
C1_Witness == pc = "done" /\ err # ErrNil /\ cleanupLog = <<2, 1>>

MissingIdx == {j \in DOMAIN Listed : Listed[j] \notin inp.Refs}
FirstMissing == CHOOSE j \in MissingIdx : \A k \in MissingIdx : j <= k

\* C2 as stated: a mapped input listing an id without a ref fails with the
\* missing-ref error naming such an id, after zero CreateFS calls. Stated for
\* the calls that get past the checks of lines 103-158 (the epoch parse, the
\* multiple-platforms check): it fails already there.
C2_Original ==
  (pc = "done" /\ Mapped /\ MissingIdx # {} /\ ~EpochFails /\ ~MultiFails) =>
    /\ err.msg = "failed to find ref for ID"
    /\ err.id \in {Listed[j] : j \in MissingIdx}
    /\ createLog = <<>>

\* C2 amended: such an input always fails, CreateFS is called only for ids
\* listed before the first missing one, in order; and unless the epoch parse,
\* the multiple-platforms check or one of those CreateFS calls fails first,
\* the error is the missing-ref error naming the first missing id, after one
\* CreateFS call per id listed before it.
C2_Amended ==
  (pc = "done" /\ Mapped /\ MissingIdx # {}) =>
    /\ err # ErrNil
    /\ Len(createLog) < FirstMissing
    /\ \A n \in DOMAIN createLog : createLog[n].k = Listed[n]
    /\ (~EpochFails /\ ~MultiFails /\ NoCreateFSError) =>
         /\ err = ErrMissingRef(Listed[FirstMissing])
         /\ Len(createLog) = FirstMissing - 1

\* C2 witness: the missing id is listed second and the first was materialized.
C2_Witness ==
  /\ pc = "done" /\ Mapped /\ MissingIdx # {}
  /\ FirstMissing = 2
  /\ Len(createLog) = 1
  /\ err = ErrMissingRef(Listed[2])

\* C3 as stated: mapped, more than one platform, override false: exactly one
\* CreateFS call, for the first listed platform. Stated for the calls that
\* get past the epoch parse: it fails already there.
C3_Original ==
  (pc = "done" /\ Mapped /\ DescriptorParses /\ Len(Listed) > 1 /\ OverrideFalse
     /\ ~EpochFails) =>
    /\ Len(createLog) = 1
    /\ createLog[1].k = Listed[1]

\* C3 amended: mapped with override false: with more than one listed platform
\* Export fails before any CreateFS call; at most one CreateFS call is ever
\* made, for the first listed platform, and only when exactly one is listed.
C3_Amended ==
  (pc = "done" /\ Mapped /\ OverrideFalse) =>
    /\ Len(Listed) > 1 =>
         createLog = <<>> /\ err \in {ErrMultipleWithoutMap, ErrInvalidEpoch}
    /\ Len(createLog) <= 1
    /\ createLog # <<>> => (Len(Listed) = 1 /\ createLog[1].k = Listed[1])

\* C3 witness: two platforms with refs, override false, nothing materialized.
C3_Witness ==
  /\ pc = "done" /\ Mapped /\ OverrideFalse
  /\ Len(Listed) = 2 /\ MissingIdx = {}
  /\ err = ErrMultipleWithoutMap
  /\ createLog = <<>>

\* C4 as stated: a parsed descriptor with more than one platform and override
\* false always fails with the multiple-platforms-without-map error.
C4_Original ==
  (pc = "done" /\ DescriptorParses /\ Len(Listed) > 1 /\ OverrideFalse) =>
    err = ErrMultipleWithoutMap

\* C4 amended: it fails with that error unless the epoch metadata fails to
\* parse first, and then with the epoch error; no CreateFS call, no sink.
C4_Amended ==
  (pc = "done" /\ DescriptorParses /\ Len(Listed) > 1 /\ OverrideFalse) =>
    /\ err = IF EpochFails THEN ErrInvalidEpoch ELSE ErrMultipleWithoutMap
    /\ createLog = <<>>
    /\ sinkLog = <<>>

\* C4 witness: a single-ref input declaring two platforms, override false.
C4_Witness ==
  /\ pc = "done" /\ ~Mapped /\ DescriptorParses /\ Len(Listed) = 2 /\ OverrideFalse
  /\ err = ErrMultipleWithoutMap

\* C5 as stated: a single-ref input always materializes exactly one directory
\* with key "", and serialization gets that directory's handle itself. Stated
\* for the calls that get past the epoch parse: it fails already there.
C5_Original ==
  SingleRef =>
    /\ (pc = "done" /\ ~EpochFails) =>
         (Len(createLog) = 1 /\ createLog[1].k = EmptyKey)
    /\ pc = "tar" => fs = OutputFS(EmptyKey)

\* C5 amended: a single-ref input makes at most one CreateFS call, with key
\* ""; exactly one unless the epoch parse, the Platforms parse or the
\* multiple-platforms check fails first; and past materialization that call
\* succeeded and fs is its handle itself, whatever isMap holds.
C5_Amended ==
  SingleRef =>
    /\ Len(createLog) <= 1
    /\ \A n \in DOMAIN createLog : createLog[n].k = EmptyKey
    /\ (pc = "done" /\ ~EpochFails /\ inp.platforms.kind # "bad" /\ ~MultiFails) =>
         Len(createLog) = 1
    /\ pc \in {"acquire", "get", "sink", "report", "tar", "close"} =>
         /\ Len(createLog) = 1
         /\ createLog[1].out # "err"
         /\ fs = OutputFS(EmptyKey)

\* C5 witness: serialization of a single-ref input with useMap true.
C5_Witness == SingleRef /\ pc = "tar" /\ isMap /\ fs = OutputFS(EmptyKey)

AllListedPresent == MissingIdx = {}
\* name is id with every "/" replaced by "_"
NamedBy(name, id) ==
  /\ Len(name) = Len(id)
  /\ \A j \in DOMAIN id : name[j] = (IF id[j] = "/" THEN "_" ELSE id[j])
AllMaterialized ==
  /\ isMap
  /\ Len(createLog) = Len(Listed)
  /\ Len(dirs) = Len(Listed)
  /\ \A j \in DOMAIN Listed :
       /\ createLog[j].k = Listed[j]
       /\ dirs[j].FS = OutputFS(Listed[j])
       /\ NamedBy(dirs[j].Path, Listed[j])

\* C6 as stated: mapped, more than one platform, no override, every id with a
\* ref, no CreateFS failure: useMap is true and one directory per listed
\* platform is materialized, named by the id with "/" replaced by "_".
C6_Original ==
  (pc = "done" /\ Mapped /\ DescriptorParses /\ Len(Listed) > 1 /\ OverrideUnset
     /\ AllListedPresent /\ NoCreateFSError) => AllMaterialized

\* C6 amended: the same, for the calls whose epoch metadata does not fail to
\* parse.
C6_Amended ==
  (pc = "done" /\ Mapped /\ DescriptorParses /\ Len(Listed) > 1 /\ OverrideUnset
     /\ AllListedPresent /\ NoCreateFSError /\ ~EpochFails) => AllMaterialized

\* C6 witness: two platforms exported in map mode, one name rewritten.
C6_Witness ==
  /\ pc = "done" /\ err = ErrNil /\ Mapped /\ OverrideUnset
  /\ Len(dirs) = 2
  /\ dirs[1].Path # Listed[1]

\* Every materialization the resolved mode selects has been made and has
\* succeeded, and in map mode the union has been composed.
SelectedMaterialized ==
  /\ NoCreateFSError
  /\ IF Mapped
     THEN IF isMap
          THEN /\ Len(createLog) = Len(Listed)
               /\ Len(dirs) = Len(Listed)
               /\ fs = UnionFS(dirs)
          ELSE Len(createLog) = (IF Len(Listed) > 0 THEN 1 ELSE 0)
     ELSE Len(createLog) = 1

\* C7: the sink is opened only by CopyFileWriter, which runs only after Get
\* returned a caller within the bound, after every selected materialization
\* and the composition succeeded; Get with its context expired returns the
\* deadline error; an Export that exits without having opened the sink
\* returns an error and nothing was written.
C7_SinkOnlyAfterAcquire ==
  [][ /\ SinkOpened' => (SelectedMaterialized' /\ timeoutCtx' # "none")
      /\ (~SinkOpened /\ SinkOpened') => pc = "sink"
      /\ (pc # "sink" /\ pc' = "sink") =>
           (pc = "get" /\ timeoutCtx = "live" /\ elapsed < AcquireTimeout)
      /\ (pc = "get" /\ timeoutCtx = "expired" /\ pc' # "get") =>
           (err' = ErrDeadline /\ pc' = "cancel")
      /\ Count("write")' > 0 => SinkOpened'
      /\ (Exited' /\ ~SinkOpened') => (err' # ErrNil /\ sinkLog' = <<>>)
    ]_vars

\* C7 witness: acquisition ran into the bound after a directory had been
\* materialized; Export is returning the deadline error, no sink opened.
C7_Witness ==
  /\ pc = "cancel"
  /\ err = ErrDeadline
  /\ elapsed = AcquireTimeout
  /\ createLog # <<>>
  /\ sinkLog = <<>>

C9_Original ==
  (pc = "done" /\ Mapped /\ inp.platforms.kind = "absent") =>
    (err = ErrMissingPlatforms /\ createLog = <<>>)

\* C9 amended: it fails before any CreateFS call, with that error unless
\* the epoch metadata fails to parse first, and then with the epoch error.
C9_Amended ==
  (pc = "done" /\ Mapped /\ inp.platforms.kind = "absent") =>
    /\ err = IF EpochFails THEN ErrInvalidEpoch ELSE ErrMissingPlatforms
    /\ createLog = <<>>

\* C9 witness: the error is returned with the override forcing map mode.
C9_Witness ==
  /\ pc = "done" /\ Mapped /\ inp.platforms.kind = "absent"
  /\ opts.MultiPlatform = {TRUE}
  /\ err = ErrMissingPlatforms

\* The epoch a call applies when it depends on the Resolve options and on
\* the call's own input alone.
OwnEpoch == IF resolved.Epoch # {} THEN resolved.Epoch ELSE ParseSource(inp).tm

\* C10 as stated: the instance's configuration stays what Resolve produced,
\* and every CreateFS call is handed the epoch that the Resolve options and
\* the call's own input determine.
C10_Original ==
  /\ pc \notin {"new", "resolveFailed"} => opts = resolved
  /\ \A n \in DOMAIN createLog : createLog[n].opts.Epoch = OwnEpoch

\* C10, the consequence alone: a call is never handed an epoch left behind by
\* an earlier call on the instance.
C10_NoCarriedEpoch ==
  \A n \in DOMAIN createLog : createLog[n].opts.Epoch = OwnEpoch

\* Line 180 is about to run: the loop over p.Platforms ended in map mode and
\* dirs is what fsutil.SubDirFS is handed.
HandedToComposer == pc = "dirs" /\ Mapped /\ isMap /\ idx > Len(p)
DistinctNames(ds) == \A a, b \in DOMAIN ds : a # b => ds[a].Path # ds[b].Path

\* C11 as stated: in map mode the names of the directories handed to the
\* composer are pairwise distinct, for every mapped input. Stated for the
\* descriptors that list no id twice: one that does hands over a shared name
\* already by that.
C11_Original ==
  (HandedToComposer /\ \A a, b \in DOMAIN Listed : a # b => Listed[a] # Listed[b])
    => DistinctNames(dirs)

\* C11 amended: the directories handed to the composer are named, in order,
\* by the listed ids with every "/" replaced by "_"; two of them share a name
\* exactly when their ids are equal after that replacement (an id listed
\* twice, or ids that differ only in "/" against "_"); a filesystem is
\* composed only from pairwise distinct names, and a call that handed over a
\* shared name ends with the composer's error and no filesystem.
C11_Amended ==
  /\ HandedToComposer =>
       /\ Len(dirs) = Len(Listed)
       /\ \A j \in DOMAIN dirs : NamedBy(dirs[j].Path, Listed[j])
       /\ \A a, b \in DOMAIN dirs :
            dirs[a].Path = dirs[b].Path <=>
              /\ Len(Listed[a]) = Len(Listed[b])
              /\ \A n \in 1..Len(Listed[a]) :
                   \/ Listed[a][n] = Listed[b][n]
                   \/ {Listed[a][n], Listed[b][n]} = {"/", "_"}
  /\ fs.kind = "subdir" => DistinctNames(fs.dirs)
  /\ (Exited /\ Mapped /\ isMap /\ Len(dirs) = Len(p) /\ createLog # <<>>
        /\ NoCreateFSError /\ ~DistinctNames(dirs)) =>
       (err = ErrSubDirFS /\ fs = NilFS)

\* C11 witness: two different listed ids were materialized under one name and
\* are handed to the composer.
C11_Witness ==
  /\ HandedToComposer
  /\ Len(dirs) = 2
  /\ Listed[1] # Listed[2]
  /\ dirs[1].Path = dirs[2].Path

\* Export got past line 155 in this call: isMap holds its resolved value.
ModeResolved ==
  \/ pc \in {"dirs", "acquire", "get", "sink", "report", "tar", "close"}
  \/ /\ pc \in {"cancel", "cleanup", "done", "panicked"}
     /\ err \notin {ErrInvalidEpoch, ErrMissingPlatforms, ErrParsePlatforms}

\* C12: once resolved, isMap equals the multi-platform override when one is
\* set; with none set it is true exactly when the ref mapping is non-empty or
\* the parsed Platforms descriptor lists more than one platform.
C12_UseMapResolved ==
  ModeResolved =>
    /\ opts.MultiPlatform = {TRUE} => isMap
    /\ opts.MultiPlatform = {FALSE} => ~isMap
    /\ opts.MultiPlatform = {} =>
         (isMap <=> (inp.Refs # {} \/ (DescriptorParses /\ Len(Listed) > 1)))

\* C12 witness: a single-ref input whose descriptor lists two platforms, no
\* override set, got as far as acquisition in map mode.
C12_Witness ==
  /\ pc = "acquire"
  /\ SingleRef
  /\ OverrideUnset
  /\ DescriptorParses
  /\ Len(Listed) = 2
  /\ isMap

\* C13 as stated: at serialization the filesystem is the union of the
\* materialized directories when isMap holds, and the first materialized
\* directory's handle when it does not, for single-ref and mapped inputs
\* alike. Stated for the calls whose filesystem was assigned at all.
C13_Original ==
  (pc = "tar" /\ fs # NilFS) =>
    IF isMap
    THEN fs.kind = "subdir" /\ fs.dirs = dirs
    ELSE createLog # <<>> /\ fs = OutputFS(createLog[1].k)

\* C13 amended: at serialization, a single-ref input's filesystem is the
\* handle of its one directory whatever isMap holds; a mapped input's is the
\* union of all listed directories, each under its name, when isMap holds,
\* the first listed directory's handle when isMap does not hold and a
\* platform is listed, and nil when isMap does not hold and none is listed.
C13_Amended ==
  pc = "tar" =>
    IF inp.Refs = {}
    THEN /\ fs = OutputFS(EmptyKey)
         /\ Len(createLog) = 1
    ELSE IF isMap
    THEN /\ fs.kind = "subdir"
         /\ fs.dirs = dirs
         /\ Len(dirs) = Len(Listed)
         /\ \A j \in DOMAIN dirs :
              /\ dirs[j].FS = OutputFS(Listed[j])
              /\ NamedBy(dirs[j].Path, Listed[j])
    ELSE IF DescriptorParses /\ Listed # <<>>
    THEN /\ fs = OutputFS(Listed[1])
         /\ Len(createLog) = 1
    ELSE /\ fs = NilFS
         /\ createLog = <<>>

\* C13 witness: a single-ref input is at serialization in map mode, and its
\* filesystem is the directory's own handle.
C13_Witness ==
  /\ pc = "tar"
  /\ inp.Refs = {}
  /\ isMap
  /\ fs = OutputFS(EmptyKey)

\* C14: in map mode the CreateFS calls are issued for the listed ids in
\* descriptor order; dirs holds the materialized directories in the order of
\* those calls, one per call that succeeded; all listed directories are in it
\* when it is handed to the composer, and the composed union holds that list.
C14_DescriptorOrder ==
  (Mapped /\ ModeResolved /\ isMap) =>
    /\ Len(createLog) <= Len(Listed)
    /\ \A n \in DOMAIN createLog : createLog[n].k = Listed[n]
    /\ Len(dirs) <= Len(createLog)
    /\ \A n \in DOMAIN createLog :
         createLog[n].out # "err" => (n \in DOMAIN dirs /\ dirs[n].FS = OutputFS(Listed[n]))
    /\ HandedToComposer => Len(dirs) = Len(Listed)
    /\ fs.kind = "subdir" => fs.dirs = dirs

\* C14 witness: two directories, listed against the order of their names, are
\* handed to the composer in the order listed.
C14_Witness ==
  /\ HandedToComposer
  /\ Listed = <<ID_w, ID_lav>>
  /\ Len(dirs) = 2
  /\ dirs[1].FS = OutputFS(ID_w)
  /\ dirs[2].FS = OutputFS(ID_lav)

\* C15 as stated: a materialized directory's stat entry carries the epoch as
\* its modTime when an epoch is set, and otherwise the truncated current time
\* Export took at line 111.
C15_Original ==
  \A j \in DOMAIN dirs :
    dirs[j].ModTime = (IF opts.Epoch # {}
                       THEN UnixNano(CHOOSE t \in opts.Epoch : TRUE)
                       ELSE UnixNano(now))

\* C15 amended: the stat entry's modTime is the epoch the instance holds when
\* the directory is materialized, and zero when it holds none; the current
\* time Export took is handed to CreateFS and is not written to the entry.
C15_Amended ==
  /\ \A j \in DOMAIN dirs :
       /\ opts.Epoch # {} => dirs[j].ModTime = UnixNano(CHOOSE t \in opts.Epoch : TRUE)
       /\ opts.Epoch = {} => dirs[j].ModTime = 0
  /\ \A n \in DOMAIN createLog :
       /\ createLog[n].now = now
       /\ createLog[n].now \in NowTimes
       /\ createLog[n].opts.Epoch = opts.Epoch

\* C15 witness: with no epoch set, a directory was materialized at a current
\* time that is not zero, and its entry's modTime is zero.
C15_Witness ==
  /\ Len(dirs) = 2
  /\ opts.Epoch = {}
  /\ now = 2
  /\ dirs[2].ModTime = 0

\* SessionManager.Get returned a caller and Export has not reached a return
\* statement since.
Acquired == pc \in {"sink", "report", "tar", "close"}

\* C16: once acquisition has succeeded, no step of Export ends the call with
\* the inner context's error, whatever state the inner context is in: the
\* call goes on or ends with the sink's, the serialization's or the close's
\* own result; and the inner context is cancelled only by the deferred cancel
\* that runs once a return statement has been reached.
C16_InnerScopeHarmless ==
  [][/\ Acquired => err' \in {err, ErrNil, ErrCopyFileWriter, ErrWriteTar,
                               ErrClose, ErrPanicNilFS}
     /\ (Acquired /\ pc' # pc) =>
          pc' \in {"report", "tar", "close", "cancel"}
     /\ (timeoutCtx' = "cancelled" /\ timeoutCtx # "cancelled") => pc = "cancel"
     /\ Acquired' => timeoutCtx' \in {"live", "expired"}]_vars

\* C16 witness: the inner context expired during the call, and the call
\* still wrote the archive, closed the sink and returned no error.
C16_Witness ==
  /\ pc = "cancel"
  /\ timeoutCtx = "expired"
  /\ err = ErrNil
  /\ w = "closed"
  /\ Count("write") = 1

\* The arguments the report function was called with, and the results of the
\* serialization and of the close, as the call's events record them.
EventArgs(ev) == {sinkLog[n].e : n \in {m \in DOMAIN sinkLog : sinkLog[m].ev = ev}}

\* C17 as stated: once the progress report has been begun it is finalized
\* exactly once by the time Export is left, on every exit path, with the
\* serialization error if serialization failed and otherwise with the result
\* of closing the sink; it is never finalized twice.
C17_Original ==
  /\ Count("final") <= 1
  /\ (Exited /\ Count("begin") > 0) =>
       /\ Count("final") = 1
       /\ EventArgs("final") =
            (IF EventArgs("write") = {ErrNil} THEN EventArgs("close")
             ELSE EventArgs("write"))

\* C18 as stated: when Export is at connection acquisition or anywhere from
\* there to the serialization, fs has been assigned: a materialized
\* directory's handle or the composed union, never nil.
C18_Original ==
  pc \in {"acquire", "get", "sink", "report", "tar", "close"} => fs # NilFS

\* C19: a cleanup is invoked only by the deferred loop, which runs after a
\* return statement (or the panic) has ended the body of Export; if the sink
\* was opened, the serialization has ended and the sink is closed by then;
\* and once a cleanup has been invoked the call materializes, composes,
\* acquires and writes nothing more.
C19_NoCleanupWhileInUse ==
  [][/\ Len(cleanupLog') > Len(cleanupLog) =>
          /\ pc = "cleanup"
          /\ SinkOpened => (w = "closed" /\ Count("write") = 1 /\ Count("close") = 1)
     /\ (cleanupLog # <<>> /\ pc' # "ready") =>
          /\ pc' \in {"cleanup", "done", "panicked"}
          /\ UNCHANGED <<createLog, dirs, fs, sinkLog, w, timeoutCtx>>]_vars

\* C19 witness: two cleanups have run, after the archive was written and the
\* sink closed.
C19_Witness ==
  /\ pc = "cleanup"
  /\ Len(cleanupLog) = 2
  /\ SinkOpened
  /\ w = "closed"
  /\ EventArgs("write") = {ErrNil}

\* C20: while the deferred loop runs, the result of Export stays what the
\* return statement fixed, whatever the cleanups return; the loop is left
\* only when every collected cleanup has been invoked, those after a cleanup
\* that returned an error included.
C20_CleanupErrorsIgnored ==
  [][/\ pc = "cleanup" => err' = err
     /\ (pc = "cleanup" /\ pc' # "cleanup") => i = Len(defers)
     /\ Exited' =>
          /\ Len(cleanupLog') = Len(defers')
          /\ Len(cleanupErrs') = Len(defers')
          /\ \A a, b \in DOMAIN cleanupLog' : a # b => cleanupLog'[a] # cleanupLog'[b]]_vars

\* C20 witness: the first cleanup invoked returned an error, the second was
\* invoked all the same, and Export returned no error.
C20_Witness ==
  /\ pc = "done"
  /\ cleanupErrs = <<ErrCleanup, ErrNil>>
  /\ cleanupLog = <<2, 1>>
  /\ err = ErrNil

====
